---- MODULE Spec2Model ----
(***************************************************************************)
(* State-machine model of the LLTF controller class of lltf_wrapper.py:    *)
(* one controller object, the native PE_Filter gateway it calls, and the   *)
(* caller issuing initialize / get / set / close, directly or inside a     *)
(* with-block.                                                             *)
(*                                                                         *)
(* Wavelengths are modelled as integers (nm); the code only compares and   *)
(* stores them.  A Python None is modelled by NoneHandle / NoneGrating.    *)
(***************************************************************************)
EXTENDS Integers, Sequences, FiniteSets, TLC

\* ---------------------------------------------------------------- bounds
\* number of <Grating> elements in the configuration file
MaxGratings == 3
\* the wavelength grid is 400, 550, ... , 400 + 150 * MaxWlIdx
MaxWlIdx == 3
\* number of native handles PE_Create may hand out in one run
MaxHandles == 2

\* ------------------------------------------------------- program constants
PE_SUCCESS == 0
PE_FAILURE == 2
DefaultWavelength == 550
SimHandle == 1

\* Python None for self.handle, and for the grating argument
NoneHandle == -1
NoneGrating == -1
\* c_void_p(0): a handle object whose pointer value is still null
NullHandle == 0
\* the uncertainty keyword was not passed
NoUncertainty == -1

Wavelengths == {400 + 150 * k : k \in 0..MaxWlIdx}
StatusCodes == {PE_SUCCESS, PE_FAILURE}
GratingArgs == {NoneGrating} \cup (0..MaxGratings)
Uncertainties == {NoUncertainty, 0, 2}
FirstNativeHandle == SimHandle + 1
NativeHandles == FirstNativeHandle..(SimHandle + MaxHandles)

\* --------------------------------------------------- configuration file
\* A <Grating> element is either without a <Range> child (NoRange) or
\* carries <<RegLower, RegUpper, ExtLower, ExtUpper>>.
NoRange == <<>>
RangeShapes == { <<550, 550, 400, 700>>,
                 <<550, 700, 550, 850>> }
GratingElems == RangeShapes \cup {NoRange}
XmlConfigs == UNION { [1..n -> GratingElems] : n \in 0..MaxGratings }

\* _load_xml_config: enumerate the <Grating> elements, keep those with a
\* <Range>, the index being the position among all elements (from 0).
RECURSIVE LoadGratingsFrom(_, _)
LoadGratingsFrom(xml, i) ==
    IF i > Len(xml) THEN <<>>
    ELSE IF xml[i] = NoRange THEN LoadGratingsFrom(xml, i + 1)
    ELSE << [ index |-> i - 1,
              regular_range |-> <<xml[i][1], xml[i][2]>>,
              extended_range |-> <<xml[i][3], xml[i][4]>> ] >>
         \o LoadGratingsFrom(xml, i + 1)

load_xml_config(xml) == LoadGratingsFrom(xml, 1)

\* ------------------------------------------------------ grating selection
NoMatch == -1

\* ScanRegular with exclusive bounds
RECURSIVE ScanRegularStrict(_, _, _)
ScanRegularStrict(ranges, w, i) ==
    IF i > Len(ranges) THEN NoMatch
    ELSE IF ranges[i].regular_range[1] < w /\ w < ranges[i].regular_range[2]
         THEN ranges[i].index
         ELSE ScanRegularStrict(ranges, w, i + 1)

\* first loop of _select_grating_for_wavelength
RECURSIVE ScanRegular(_, _, _)
ScanRegular(ranges, w, i) ==
    IF i > Len(ranges) THEN NoMatch
    ELSE IF ranges[i].regular_range[1] <= w /\ w <= ranges[i].regular_range[2]
         THEN ranges[i].index
         ELSE ScanRegular(ranges, w, i + 1)

\* second loop of _select_grating_for_wavelength
RECURSIVE ScanExtended(_, _, _)
ScanExtended(ranges, w, i) ==
    IF i > Len(ranges) THEN NoMatch
    ELSE IF ranges[i].extended_range[1] <= w /\ w <= ranges[i].extended_range[2]
         THEN ranges[i].index
         ELSE ScanExtended(ranges, w, i + 1)

\* RangesStr listing the extended ranges
RangesStrExtended(ranges) ==
    [ i \in 1..Len(ranges) |->
        <<ranges[i].index, ranges[i].extended_range[1], ranges[i].extended_range[2]>> ]

\* third loop: the "Grating i: lo-hi nm" entries of the error message
RangesStr(ranges) ==
    [ i \in 1..Len(ranges) |->
        <<ranges[i].index, ranges[i].regular_range[1], ranges[i].regular_range[2]>> ]

\* _select_grating_for_wavelength: what it returns or raises, the number of
\* warnings.warn calls, and the ranges listed in the error message
select_grating_for_wavelength(ranges, w) ==
    IF ScanRegular(ranges, w, 1) # NoMatch
    THEN [ res |-> "ok", index |-> ScanRegular(ranges, w, 1),
           warnings |-> 0, msg |-> <<>> ]
    ELSE IF ScanExtended(ranges, w, 1) # NoMatch
    THEN [ res |-> "ok", index |-> ScanExtended(ranges, w, 1),
           warnings |-> 1, msg |-> <<>> ]
    ELSE [ res |-> "UnsupportedWavelength", index |-> NoMatch,
           warnings |-> 0, msg |-> RangesStr(ranges) ]

\* the grating check of set_wavelength: "if grating not in [0, 1]"
ValidGrating(g) == g \in {0, 1}

\* _check_status
check_status(status) == IF status # PE_SUCCESS THEN "NativeStatus" ELSE "ok"


\* ------------------------------------------------------------------ state
VARIABLES
    grating_ranges,        \* self.grating_ranges, fixed by the constructor
    system_name,           \* self.system_name is truthy (TRUE) or None/"" (FALSE)
    dll,                   \* self.dll is a loaded library (TRUE) or None (FALSE)
    handle,                \* self.handle
    simulate_mode,         \* self.simulate_mode
    simulated_wavelength,  \* self.simulated_wavelength
    live,                  \* native side: handles created and not yet destroyed
    nextHandle,            \* native side: the handle the next PE_Create returns
    inBlock,               \* the caller is inside "with LLTF(...) as lltf:"
    op,                    \* the last call made on the controller
    argW,                  \* its wavelength argument (0 when it has none)
    argG,                  \* its grating argument
    argSim,                \* its simulate argument
    argUnc,                \* its uncertainty keyword
    res,                   \* "ok" or the error it raised
    ret,                   \* the value it returned
    warned,                \* the number of warnings it emitted
    msg,                   \* the ranges listed in its error message
    calls,                 \* the native calls it issued, in order
    selected,              \* the grating its auto-selection chose
    excIn,                 \* with-block exit: the exception leaving the body
    initOK,                \* history: an initialize succeeded and no close since
    lastSet                \* history: the last wavelength a simulated set_wavelength
                           \*          accepted since the last initialize

core == <<dll, handle, simulate_mode, simulated_wavelength, live, nextHandle>>
config == <<grating_ranges, system_name>>
obs == <<op, argW, argG, argSim, argUnc, res, ret, warned, msg, calls, selected, excIn>>
hist == <<initOK, lastSet>>
vars == <<config, core, inBlock, obs, hist>>

NoRet == -1
NoWl == 0

\* __init__: the fields after construction from one of the files xmls, whose
\* Filter component has an Id (TRUE) or not (FALSE) as listed in names
Construct(xmls, names) ==
    /\ \E xml \in xmls : grating_ranges = load_xml_config(xml)
    /\ system_name \in names
    /\ dll = FALSE
    /\ handle = NoneHandle
    /\ simulate_mode = FALSE
    /\ simulated_wavelength = DefaultWavelength
    /\ live = {}
    /\ nextHandle = FirstNativeHandle
    /\ inBlock = FALSE
    /\ op = "new" /\ argW = NoWl /\ argG = NoneGrating /\ argSim = FALSE
    /\ argUnc = NoUncertainty /\ res = "ok" /\ ret = NoRet /\ warned = 0
    /\ msg = <<>> /\ calls = <<>> /\ selected = NoMatch /\ excIn = "none"
    /\ initOK = FALSE
    /\ lastSet = NoWl

\* the configurations of the life-cycle specification: a two-grating device
\* with overlapping ranges (the shape of the shipped configuration) and a
\* three-grating one
DeviceXmls == { << <<550, 550, 400, 700>>, <<550, 700, 550, 850>> >>,
                << <<550, 550, 400, 700>>, NoRange, <<550, 700, 550, 850>> >> }

Init == Construct(DeviceXmls, BOOLEAN)

\* every configuration file of up to MaxGratings elements, its Filter
\* component carrying an Id
InitConfig == Construct(XmlConfigs, {TRUE})

\* what the caller observes of one call
Observe(o, w, g, r, v, wn, m, cs, sel) ==
    /\ op' = o /\ argW' = w /\ argG' = g /\ res' = r /\ ret' = v
    /\ warned' = wn /\ msg' = m /\ calls' = cs /\ selected' = sel
    /\ excIn' = "none"

\* ------------------------------------------------------------- initialize
\* initialize(simulate=True): dummy handle, nothing else
InitializeSimulated ==
    /\ simulate_mode' = TRUE
    /\ handle' = SimHandle
    /\ UNCHANGED <<dll, simulated_wavelength, live, nextHandle>>
    /\ Observe("initialize", NoWl, NoneGrating, "ok", NoRet, 0, <<>>, <<>>, NoMatch)
    /\ initOK' = TRUE

\* initialize(simulate=False): _load_dll, PE_Create, PE_Open; the library
\* load and the two native calls succeed or fail as the environment decides
InitializeReal ==
    /\ simulate_mode' = FALSE
    /\ \E loadOk \in BOOLEAN :
       IF ~loadOk
       THEN \* CDLL raised: self.dll and self.handle keep their values
            /\ UNCHANGED <<dll, handle, simulated_wavelength, live, nextHandle>>
            /\ Observe("initialize", NoWl, NoneGrating, "LoadFailed", NoRet, 0,
                       <<>>, <<>>, NoMatch)
            /\ initOK' = FALSE
       ELSE
            /\ dll' = TRUE
            /\ UNCHANGED simulated_wavelength
            /\ \E sCreate \in StatusCodes :
               IF check_status(sCreate) # "ok"
               THEN \* PE_Create failed: self.handle stays c_void_p(0)
                    /\ handle' = NullHandle
                    /\ UNCHANGED <<live, nextHandle>>
                    /\ Observe("initialize", NoWl, NoneGrating, "NativeStatus", NoRet, 0,
                               <<>>, << <<"PE_Create", NullHandle>> >>, NoMatch)
                    /\ initOK' = FALSE
               ELSE
                    /\ nextHandle \in NativeHandles
                    /\ handle' = nextHandle
                    /\ live' = live \cup {nextHandle}
                    /\ nextHandle' = nextHandle + 1
                    /\ IF system_name
                       THEN \E sOpen \in StatusCodes :
                            /\ Observe("initialize", NoWl, NoneGrating,
                                       check_status(sOpen), NoRet, 0, <<>>,
                                       << <<"PE_Create", nextHandle>>,
                                          <<"PE_Open", nextHandle>> >>, NoMatch)
                            /\ initOK' = (check_status(sOpen) = "ok")
                       ELSE /\ Observe("initialize", NoWl, NoneGrating, "ok", NoRet, 0,
                                       <<>>, << <<"PE_Create", nextHandle>> >>, NoMatch)
                            /\ initOK' = TRUE

\* initialize(simulate, uncertainty=...): the signature has no uncertainty
\* parameter, so passing the keyword raises TypeError before the body runs
Initialize(simulate, unc) ==
    /\ argSim' = simulate
    /\ argUnc' = unc
    /\ UNCHANGED <<config, inBlock>>
    /\ IF unc # NoUncertainty
       THEN /\ UNCHANGED <<core, hist>>
            /\ Observe("initialize", NoWl, NoneGrating, "TypeError", NoRet, 0,
                       <<>>, <<>>, NoMatch)
       ELSE /\ lastSet' = NoWl
            /\ IF simulate THEN InitializeSimulated
                           ELSE InitializeReal


\* a call other than initialize carries no simulate / uncertainty argument
NoInitArgs == argSim' = FALSE /\ argUnc' = NoUncertainty

\* ---------------------------------------------- get_connected_device_count
GetConnectedDeviceCount ==
    /\ NoInitArgs
    /\ UNCHANGED <<config, core, inBlock, hist>>
    /\ IF simulate_mode
       THEN Observe("count", NoWl, NoneGrating, "ok", 1, 0, <<>>, <<>>, NoMatch)
       ELSE IF handle = NoneHandle
       THEN Observe("count", NoWl, NoneGrating, "NotInitialized", NoRet, 0,
                    <<>>, <<>>, NoMatch)
       ELSE IF ~dll
       THEN \* self.dll is None: attribute lookup on None
            Observe("count", NoWl, NoneGrating, "AttributeError", NoRet, 0,
                    <<>>, <<>>, NoMatch)
       ELSE \E count \in {0, 1} :
            Observe("count", NoWl, NoneGrating, "ok", count, 0, <<>>,
                    << <<"PE_GetSystemCount", handle>> >>, NoMatch)

\* ---------------------------------------------------------- get_wavelength
\* SimulatedReading returning the construction-time default
SimulatedReadingDefault == DefaultWavelength

\* what get_wavelength returns in simulation mode
SimulatedReading == simulated_wavelength

GetWavelength ==
    /\ NoInitArgs
    /\ UNCHANGED <<config, core, inBlock, hist>>
    /\ IF simulate_mode
       THEN Observe("get", NoWl, NoneGrating, "ok", SimulatedReading, 0,
                    <<>>, <<>>, NoMatch)
       ELSE IF handle = NoneHandle
       THEN Observe("get", NoWl, NoneGrating, "NotInitialized", NoRet, 0,
                    <<>>, <<>>, NoMatch)
       ELSE IF ~dll
       THEN Observe("get", NoWl, NoneGrating, "AttributeError", NoRet, 0,
                    <<>>, <<>>, NoMatch)
       ELSE \E status \in StatusCodes, value \in Wavelengths :
            Observe("get", NoWl, NoneGrating, check_status(status),
                    IF check_status(status) = "ok" THEN value ELSE NoRet, 0, <<>>,
                    << <<"PE_GetWavelength", handle>> >>, NoMatch)

\* ---------------------------------------------------------- set_wavelength
\* the grating set_wavelength works with after "if grating is None"
ResolveGrating(w, g) ==
    IF g = NoneGrating THEN select_grating_for_wavelength(grating_ranges, w)
    ELSE [ res |-> "ok", index |-> g, warnings |-> 0, msg |-> <<>> ]

SetWavelength(w, g) ==
    LET sel == ResolveGrating(w, g)
        auto == IF g = NoneGrating THEN sel.index ELSE NoMatch
    IN
    /\ NoInitArgs
    /\ UNCHANGED <<config, inBlock, initOK>>
    /\ IF handle = NoneHandle
       THEN /\ UNCHANGED <<core, lastSet>>
            /\ Observe("set", w, g, "NotInitialized", NoRet, 0, <<>>, <<>>, NoMatch)
       ELSE IF sel.res # "ok"
       THEN /\ UNCHANGED <<core, lastSet>>
            /\ Observe("set", w, g, sel.res, NoRet, sel.warnings, sel.msg, <<>>, auto)
       ELSE IF ~ValidGrating(sel.index)
       THEN /\ UNCHANGED <<core, lastSet>>
            /\ Observe("set", w, g, "InvalidGrating", NoRet, sel.warnings, <<>>,
                       <<>>, auto)
       ELSE IF simulate_mode
       THEN /\ simulated_wavelength' = w
            /\ lastSet' = w
            /\ UNCHANGED <<dll, handle, simulate_mode, live, nextHandle>>
            /\ Observe("set", w, g, "ok", NoRet, sel.warnings, <<>>, <<>>, auto)
       ELSE IF ~dll
       THEN /\ UNCHANGED <<core, lastSet>>
            /\ Observe("set", w, g, "AttributeError", NoRet, sel.warnings, <<>>,
                       <<>>, auto)
       ELSE /\ UNCHANGED <<core, lastSet>>
            /\ \E status \in StatusCodes :
               Observe("set", w, g, check_status(status), NoRet, sel.warnings, <<>>,
                       << <<"PE_SetWavelengthOnGrating", handle, sel.index>> >>, auto)

\* a direct call of _select_grating_for_wavelength (examples/demo_advanced.py)
SelectGrating(w) ==
    LET sel == select_grating_for_wavelength(grating_ranges, w) IN
    /\ NoInitArgs
    /\ UNCHANGED <<config, core, inBlock, hist>>
    /\ Observe("select", w, NoneGrating, sel.res, sel.index, sel.warnings, sel.msg,
               <<>>, sel.index)

\* ------------------------------------------------------------------- close
\* close() without the early return of simulation mode
closeAlways(status) ==
    IF handle = NoneHandle
    THEN [ res |-> "ok", calls |-> <<>>, handle |-> handle, live |-> live ]
    ELSE IF ~dll
    THEN [ res |-> "AttributeError", calls |-> <<>>, handle |-> handle, live |-> live ]
    ELSE [ res |-> "ok",
           calls |-> << <<"PE_Close", handle, status>>, <<"PE_Destroy", handle>> >>,
           handle |-> NoneHandle, live |-> live \ {handle} ]

\* the body of close(): its error, its native calls and the fields it
\* changes; status is what PE_Close returns when it is called
close(status) ==
    IF simulate_mode
    THEN [ res |-> "ok", calls |-> <<>>, handle |-> handle, live |-> live ]
    ELSE IF handle = NoneHandle
    THEN [ res |-> "ok", calls |-> <<>>, handle |-> handle, live |-> live ]
    ELSE IF ~dll
    THEN \* self.dll.PE_Close with self.dll None
         [ res |-> "AttributeError", calls |-> <<>>, handle |-> handle, live |-> live ]
    ELSE \* a failing PE_Close is swallowed; PE_Destroy follows; handle = None
         [ res |-> "ok",
           calls |-> << <<"PE_Close", handle, status>>, <<"PE_Destroy", handle>> >>,
           handle |-> NoneHandle, live |-> live \ {handle} ]

Close ==
    \E status \in StatusCodes :
    LET c == close(status) IN
    /\ NoInitArgs
    /\ UNCHANGED <<config, inBlock, lastSet>>
    /\ handle' = c.handle
    /\ live' = c.live
    /\ UNCHANGED <<dll, simulate_mode, simulated_wavelength, nextHandle>>
    /\ Observe("close", NoWl, NoneGrating, c.res, NoRet, 0, <<>>, c.calls, NoMatch)
    /\ initOK' = IF c.res = "ok" THEN FALSE ELSE initOK

\* -------------------------------------------------------------- with-block
\* __enter__ on a freshly constructed controller: "with LLTF(...) as lltf:"
Enter ==
    /\ op = "new"
    /\ ~inBlock
    /\ inBlock' = TRUE
    /\ UNCHANGED <<config, core, hist, argSim, argUnc>>
    /\ Observe("enter", NoWl, NoneGrating, "ok", NoRet, 0, <<>>, <<>>, NoMatch)

\* Leaving the block: normally (exc = "none") or with the exception the last
\* call in the body raised.  __exit__ calls close() and returns None, so the
\* body's exception propagates unless close() itself raises.
Exit(exc) ==
    \E status \in StatusCodes :
    LET c == close(status) IN
    /\ inBlock
    /\ exc = "none" \/ (res # "ok" /\ exc = res)
    /\ inBlock' = FALSE
    /\ NoInitArgs
    /\ UNCHANGED <<config, lastSet>>
    /\ handle' = c.handle
    /\ live' = c.live
    /\ UNCHANGED <<dll, simulate_mode, simulated_wavelength, nextHandle>>
    /\ op' = "exit" /\ argW' = NoWl /\ argG' = NoneGrating
    /\ res' = IF c.res # "ok" THEN c.res ELSE IF exc # "none" THEN exc ELSE "ok"
    /\ ret' = NoRet /\ warned' = 0 /\ msg' = <<>> /\ calls' = c.calls
    /\ selected' = NoMatch
    /\ excIn' = exc
    /\ initOK' = IF c.res = "ok" THEN FALSE ELSE initOK

Errors == {"NotInitialized", "InvalidGrating", "UnsupportedWavelength",
           "NativeStatus", "LoadFailed", "AttributeError", "TypeError"}

Next ==
    \/ \E simulate \in BOOLEAN, unc \in Uncertainties : Initialize(simulate, unc)
    \/ GetConnectedDeviceCount
    \/ GetWavelength
    \/ \E w \in Wavelengths, g \in GratingArgs : SetWavelength(w, g)
    \/ \E w \in Wavelengths : SelectGrating(w)
    \/ Close
    \/ Enter
    \/ \E exc \in {"none", res} \cap ({"none"} \cup Errors) : Exit(exc)

Spec == Init /\ [][Next]_vars

\* the calls that involve the configuration, over every configuration file
NextConfig ==
    \/ \E simulate \in BOOLEAN, unc \in Uncertainties : Initialize(simulate, unc)
    \/ GetWavelength
    \/ \E w \in Wavelengths, g \in GratingArgs : SetWavelength(w, g)
    \/ \E w \in Wavelengths : SelectGrating(w)

SpecConfig == InitConfig /\ [][NextConfig]_vars


\* ================================================================ claims
InRegular(i, w) ==
    grating_ranges[i].regular_range[1] <= w /\ w <= grating_ranges[i].regular_range[2]
InExtended(i, w) ==
    grating_ranges[i].extended_range[1] <= w /\ w <= grating_ranges[i].extended_range[2]
Positions == 1..Len(grating_ranges)
SomeRegular(w) == \E i \in Positions : InRegular(i, w)
SomeExtended(w) == \E i \in Positions : InExtended(i, w)
FirstRegular(w) ==
    CHOOSE i \in Positions : InRegular(i, w) /\ \A j \in 1..(i - 1) : ~InRegular(j, w)
FirstExtended(w) ==
    CHOOSE i \in Positions : InExtended(i, w) /\ \A j \in 1..(i - 1) : ~InExtended(j, w)
ConfiguredIndices == { grating_ranges[i].index : i \in Positions }

\* the last call ran the auto-selection: a direct call of the selection, or
\* a set_wavelength without grating on a session whose handle is not None
AutoSelected ==
    \/ op = "select"
    \/ op = "set" /\ argG = NoneGrating /\ handle # NoneHandle

\* the configuration of the scenario: grating 0 = [400,700], grating 1 = [650,1000]
ScenarioRanges ==
    load_xml_config(<< <<400, 700, 350, 750>>, <<650, 1000, 600, 1050>> >>)

\* C1: whenever the auto-selection runs on a wavelength that some grating's
\* regular range contains (bounds inclusive), it chooses the index of the
\* first such grating in configuration order and emits no warning, whatever
\* the extended ranges of earlier gratings; in the scenario configuration
\* wavelength 650 selects grating 0.
C1_FirstRegularMatch ==
    /\ (AutoSelected /\ SomeRegular(argW)) =>
          /\ selected = grating_ranges[FirstRegular(argW)].index
          /\ warned = 0
          /\ res # "UnsupportedWavelength"
    /\ select_grating_for_wavelength(ScenarioRanges, 650).index = 0
    /\ select_grating_for_wavelength(ScenarioRanges, 650).warnings = 0

\* a later grating is selected on the upper bound of its regular range while
\* the first grating's extended range contains the wavelength too
C1_Witness ==
    /\ op = "select"
    /\ \E j \in Positions :
          /\ j > 1
          /\ InRegular(j, argW) /\ argW = grating_ranges[j].regular_range[2]
          /\ InExtended(1, argW) /\ ~InRegular(1, argW)
          /\ selected = grating_ranges[j].index
    /\ warned = 0

\* C2: a set_wavelength without grating, on a wavelength in no regular range
\* but in some extended range, selects the first grating in configuration
\* order whose extended range contains it, warns exactly once, and goes on
\* past the selection and the grating check (it is not rejected).
C2_ExtendedFallbackProceeds ==
    (op = "set" /\ argG = NoneGrating /\ handle # NoneHandle
        /\ ~SomeRegular(argW) /\ SomeExtended(argW)) =>
       /\ selected = grating_ranges[FirstExtended(argW)].index
       /\ warned = 1
       /\ res \notin {"UnsupportedWavelength", "InvalidGrating"}

\* C3: on a session with a handle, set_wavelength(w) without grating and w in
\* no regular and no extended range raises UnsupportedWavelength, its message
\* lists the regular range of each configured grating in order, no native
\* call is issued, and the stored simulated wavelength stays as it was.
C3_UnsupportedWavelength ==
    /\ [] ( (op = "set" /\ argG = NoneGrating /\ handle # NoneHandle
                /\ ~SomeRegular(argW) /\ ~SomeExtended(argW)) =>
               /\ res = "UnsupportedWavelength"
               /\ Len(msg) = Len(grating_ranges)
               /\ \A i \in Positions :
                     msg[i] = << grating_ranges[i].index,
                                 grating_ranges[i].regular_range[1],
                                 grating_ranges[i].regular_range[2] >>
               /\ calls = <<>> )
    /\ [][ (op' = "set" /\ res' = "UnsupportedWavelength") =>
              simulated_wavelength' = simulated_wavelength ]_vars

\* an unsupported wavelength is refused on an opened real session with two
\* gratings, after a simulated set had stored another wavelength
C3_Witness ==
    /\ op = "set" /\ res = "UnsupportedWavelength"
    /\ ~simulate_mode /\ dll /\ handle \in NativeHandles
    /\ Len(msg) >= 2
    /\ simulated_wavelength # DefaultWavelength

\* the grating set_wavelength ended up using
UsedGrating == IF argG = NoneGrating THEN selected ELSE argG

\* C4: a set_wavelength that gets to the grating check raises InvalidGrating
\* exactly when the grating it uses is not the index of a configured grating.
C4_ValidatedAgainstConfigured ==
    (op = "set" /\ handle # NoneHandle /\ res # "UnsupportedWavelength") =>
       ((res = "InvalidGrating") <=> (UsedGrating \notin ConfiguredIndices))

C6_UncertaintyAccepted ==
    (op = "initialize" /\ argSim /\ argUnc > 0) => res = "ok"

\* C7: close() never raises, in any reachable state (so neither of two
\* close() calls in a row does).
C7_CloseNeverRaises ==
    op = "close" => res = "ok"

\* C8: after close() returns, the handle is None, in real and in simulation
\* mode.
C8_ClosedIsUninitialized ==
    (op = "close" /\ res = "ok") => handle = NoneHandle

\* C9: when a with-block on a fresh controller is left, an exception leaving
\* the body is the one that reaches the caller, and no native handle created
\* in the block is still undestroyed.
C9_ScopedCleanup ==
    op = "exit" =>
       /\ (excIn # "none" => res = excIn)
       /\ live = {}

\* C10: while no initialize has succeeded since construction or since the
\* last close, get_connected_device_count, get_wavelength and set_wavelength
\* raise NotInitialized and issue no native call.
C10_RequiresInitialize ==
    (op \in {"count", "get", "set"} /\ ~initOK) =>
       (res = "NotInitialized" /\ calls = <<>>)


\* C11: simulate_mode is true exactly from a returning initialize(simulate=
\* True) to the next initialize that runs; while it is true, no call of
\* get_connected_device_count, get_wavelength, set_wavelength or close (also
\* the close of a with-block exit) issues a native call or loads the library,
\* and get_connected_device_count returns 1.
C11_SimulationNeverNative ==
    /\ [] ( (simulate_mode /\ op \in {"count", "get", "set", "close", "exit"}) =>
               /\ calls = <<>>
               /\ (op = "count" => (res = "ok" /\ ret = 1)) )
    /\ [][ (simulate_mode /\ op' \in {"count", "get", "set", "close", "exit"}) =>
              dll' = dll ]_vars
    /\ [][ (op' = "initialize" /\ argSim' /\ res' = "ok") => simulate_mode' ]_vars
    /\ [][ op' # "initialize" => simulate_mode' = simulate_mode ]_vars

\* a simulated session is closed while the library is loaded and a native
\* handle of an earlier real session is still open
C11_Witness ==
    /\ op = "close" /\ simulate_mode /\ handle = SimHandle
    /\ dll /\ live # {}
    /\ calls = <<>>

\* C12: after an initialize(simulate=True) and before any set_wavelength,
\* get_wavelength returns the 550 nm baseline.
C12_SimulatedBaseline ==
    (op = "get" /\ simulate_mode /\ lastSet = NoWl) =>
       (res = "ok" /\ ret = DefaultWavelength)

\* C13: close() in real mode on a handle that is not None raises nothing,
\* issues PE_Close and then PE_Destroy on that handle whatever status
\* PE_Close returns, and leaves the handle None.
C13_BestEffortTeardown ==
    [][ (op' = "close" /\ ~simulate_mode /\ handle # NoneHandle) =>
           /\ res' = "ok"
           /\ \E status \in StatusCodes :
                 calls' = << <<"PE_Close", handle, status>>, <<"PE_Destroy", handle>> >>
           /\ handle' = NoneHandle ]_vars

\* C14: when close() returns, every handle PE_Create handed out has been
\* passed to PE_Destroy.
C14_NoLeakedHandle ==
    (op = "close" /\ res = "ok") => live = {}

====
